---- MODULE Spec2Model ----
(***************************************************************************)
(* Model of polars-sql/src/table_functions.rs: the table-function registry *)
(* (PolarsTableFunctions, FromStr) and the resolver (execute, read_csv,    *)
(* read_parquet, read_ipc, get_file_path_from_arg).                        *)
(*                                                                         *)
(* Strings are TLA+ strings; format!() is string concatenation (\o).       *)
(* A call is followed statement by statement: each caller has a position   *)
(* pc[t] and the locals of its current call.  The scan constructors of the *)
(* lazy engine are the environment: every invocation is appended to        *)
(* calls[t] together with the answer the backend gave.                     *)
(***************************************************************************)
EXTENDS Integers, Sequences, FiniteSets, TLC

VARIABLES
  features,  \* the cargo features compiled in (#[cfg(feature = ..)])
  pc,        \* pc[t]: where caller t is
  name,      \* name[t]: the string given to from_str
  parsed,    \* parsed[t]: what from_str returned
  args,      \* args[t]: the argument slice given to execute
  path,      \* path[t]: the local `path` of the running routine
  calls,     \* calls[t]: scan constructors invoked by the running call
  result     \* result[t]: what execute returned, or its panic

vars == <<features, pc, name, parsed, args, path, calls, result>>

-----------------------------------------------------------------------------
(* Bounds and input sets *)

\* longest argument list handed to execute
MaxArgs == 2

\* the callers.  Main alone resolves in Spec; Main and one worker in SpecPair,
\* which puts any two calls side by side; all three in SpecThreads, where a
\* third call can run between or during the two that are compared
Threads == {"main", "worker1", "worker2"}

Main == "main"

Pair == {"main", "worker1"}

Features == {"csv", "parquet", "ipc"}

Names ==
  {"read_csv", "read_parquet", "read_ipc", "READ_CSV", "Read_Ipc",
   " read_csv", "read_parquet ", "", "unknown_fn", "read_json"}

Paths == {"a.csv", " A b.PQ ", "it's.ipc", ""}

-----------------------------------------------------------------------------
(* sqlparser::ast values the resolver pattern-matches on *)

SingleQuotedString(s) == [val |-> "SingleQuotedString", s |-> s]

DoubleQuotedString(s) == [val |-> "DoubleQuotedString", s |-> s]

Number(s) == [val |-> "Number", s |-> s]

Boolean(s) == [val |-> "Boolean", s |-> s]

Value(v) == [expr |-> "Value", v |-> v, id |-> ""]

Identifier(id) == [expr |-> "Identifier", v |-> Number(""), id |-> id]

Function(id) == [expr |-> "Function", v |-> Number(""), id |-> id]

Expr(e) == [fae |-> "Expr", e |-> e]

Wildcard == [fae |-> "Wildcard", e |-> Identifier("")]

Unnamed(x) == [arg |-> "Unnamed", name |-> "", x |-> x]

Named(n, x) == [arg |-> "Named", name |-> n, x |-> x]

Literal(s) == Unnamed(Expr(Value(SingleQuotedString(s))))

\* first arguments that are not an unnamed single-quoted string literal
BadArgs ==
  {Named("foo", Expr(Value(SingleQuotedString("a.csv")))),
   Unnamed(Expr(Value(Number("1")))),
   Unnamed(Expr(Value(Boolean("true")))),
   Unnamed(Expr(Value(DoubleQuotedString("a.csv")))),
   Unnamed(Expr(Identifier("col"))),
   Unnamed(Expr(Function("now"))),
   Unnamed(Wildcard)}

FirstArgs == {Literal(p) : p \in Paths} \cup BadArgs

\* arguments at index 1 and beyond: a valid literal, a named one, a non-literal
TailArgs ==
  {Literal("b.csv"),
   Named("sep", Expr(Value(SingleQuotedString(";")))),
   Unnamed(Expr(Identifier("col")))}

RECURSIVE Tails(_)
Tails(n) ==
  IF n = 0 THEN {<<>>}
  ELSE Tails(n - 1) \cup {Append(s, a) : s \in {x \in Tails(n - 1) : Len(x) = n - 1}, a \in TailArgs}

ArgLists(first) ==
  {<<>>} \cup {<<f>> \o s : f \in first, s \in Tails(MaxArgs - 1)}

SeqArgLists == ArgLists(FirstArgs)

\* SpecPair: a valid and an invalid first argument, every tail
PairArgLists == ArgLists({Literal("a.csv"), Unnamed(Expr(Value(Number("1"))))})

\* SpecThreads: short calls on two paths
ThreadNames == {"read_csv", "read_parquet", "unknown_fn"}

ThreadArgLists ==
  {<<>>, <<Literal("a.csv")>>, <<Literal("it's.ipc")>>, <<Unnamed(Expr(Value(Number("1"))))>>}

-----------------------------------------------------------------------------
(* Results *)

NoError == [variant |-> "", msg |-> ""]

ComputeError(m) == [variant |-> "ComputeError", msg |-> m]

NoFrame == [scan |-> "", path |-> "", options |-> ""]

\* the LazyFrame a scan constructor builds
LazyFrame(ctor, p, opts) == [scan |-> ctor, path |-> p, options |-> opts]

\* the backend's possible answers to a scan construction
BackendErrors ==
  {[variant |-> "Io", msg |-> "No such file or directory"],
   [variant |-> "ComputeError", msg |-> "invalid header"]}

BackendAnswers == {NoError} \cup BackendErrors

NoKind == [tag |-> "None", kind |-> "", err |-> NoError]

OkKind(k) == [tag |-> "Ok", kind |-> k, err |-> NoError]

ErrKind(e) == [tag |-> "Err", kind |-> "", err |-> e]

NoResult == [tag |-> "None", name |-> "", lf |-> NoFrame, err |-> NoError, panic |-> ""]

Ok(p, lf) == [tag |-> "Ok", name |-> p, lf |-> lf, err |-> NoError, panic |-> ""]

Err(e) == [tag |-> "Err", name |-> "", lf |-> NoFrame, err |-> e, panic |-> ""]

Panic(m) == [tag |-> "Panic", name |-> "", lf |-> NoFrame, err |-> NoError, panic |-> m]

OkPath(s) == [tag |-> "Ok", s |-> s, err |-> NoError]

ErrPath(e) == [tag |-> "Err", s |-> "", err |-> e]

None == <<>>

Some(x) == <<x>>

-----------------------------------------------------------------------------
(* format!("{}", arg): the textual rendering of a FunctionArg, as the      *)
(* Display implementations of sqlparser::ast write it                      *)

RECURSIVE escape_single_quote_string(_)
escape_single_quote_string(s) ==
  IF Len(s) = 0 THEN ""
  ELSE (IF SubSeq(s, 1, 1) = "'" THEN "''" ELSE SubSeq(s, 1, 1))
         \o escape_single_quote_string(SubSeq(s, 2, Len(s)))

DisplayValue(v) ==
  CASE v.val = "SingleQuotedString" -> "'" \o escape_single_quote_string(v.s) \o "'"
    [] v.val = "DoubleQuotedString" -> "\"" \o v.s \o "\""
    [] OTHER -> v.s

DisplayExpr(e) ==
  CASE e.expr = "Value" -> DisplayValue(e.v)
    [] e.expr = "Function" -> e.id \o "()"
    [] OTHER -> e.id

DisplayArgExpr(x) ==
  IF x.fae = "Wildcard" THEN "*" ELSE DisplayExpr(x.e)

Display(arg) ==
  IF arg.arg = "Named"
    THEN arg.name \o " => " \o DisplayArgExpr(arg.x)
    ELSE DisplayArgExpr(arg.x)

-----------------------------------------------------------------------------
(* The registry: FromStr for PolarsTableFunctions *)

\* from_str as it would be with the name trimmed and lower-cased first
from_str_normalised(s) ==
  IF s \in {"read_csv", "READ_CSV", " read_csv"} /\ "csv" \in features THEN OkKind("ReadCsv")
  ELSE IF s \in {"read_parquet", "read_parquet "} /\ "parquet" \in features THEN OkKind("ReadParquet")
  ELSE IF s \in {"read_ipc", "Read_Ipc"} /\ "ipc" \in features THEN OkKind("ReadIpc")
  ELSE ErrKind(ComputeError("'" \o s \o "' is not a supported table function"))

\* from_str as it would be with a separate error for a disabled feature
from_str_feature_hint(s) ==
  IF s = "read_csv" /\ "csv" \in features THEN OkKind("ReadCsv")
  ELSE IF s = "read_parquet" /\ "parquet" \in features THEN OkKind("ReadParquet")
  ELSE IF s = "read_ipc" /\ "ipc" \in features THEN OkKind("ReadIpc")
  ELSE IF s \in {"read_csv", "read_parquet", "read_ipc"}
    THEN ErrKind(ComputeError("'" \o s \o "' requires a feature that is not enabled"))
  ELSE ErrKind(ComputeError("'" \o s \o "' is not a supported table function"))

\* an enum variant exists only when its feature is compiled in
from_str(s) ==
  IF s = "read_csv" /\ "csv" \in features THEN OkKind("ReadCsv")
  ELSE IF s = "read_parquet" /\ "parquet" \in features THEN OkKind("ReadParquet")
  ELSE IF s = "read_ipc" /\ "ipc" \in features THEN OkKind("ReadIpc")
  ELSE ErrKind(ComputeError("'" \o s \o "' is not a supported table function"))

-----------------------------------------------------------------------------
(* The resolver *)

\* execute as it would be with the ReadIpc arm left out
execute_no_ipc(k) ==
  IF k = "ReadCsv" /\ "csv" \in features THEN "read_csv"
  ELSE IF k = "ReadParquet" /\ "parquet" \in features THEN "read_parquet"
  ELSE "unreachable"

\* the match of execute: the routine a kind is dispatched to
execute(k) ==
  IF k = "ReadCsv" /\ "csv" \in features THEN "read_csv"
  ELSE IF k = "ReadParquet" /\ "parquet" \in features THEN "read_parquet"
  ELSE IF k = "ReadIpc" /\ "ipc" \in features THEN "read_ipc"
  ELSE "unreachable"

RECURSIVE trim_start(_)
trim_start(s) ==
  IF Len(s) > 0 /\ SubSeq(s, 1, 1) = " " THEN trim_start(SubSeq(s, 2, Len(s))) ELSE s

RECURSIVE trim_end(_)
trim_end(s) ==
  IF Len(s) > 0 /\ SubSeq(s, Len(s), Len(s)) = " " THEN trim_end(SubSeq(s, 1, Len(s) - 1)) ELSE s

\* get_file_path_from_arg as it would be with the literal trimmed
get_file_path_from_arg_trim(arg) ==
  IF /\ arg.arg = "Unnamed"
     /\ arg.x.fae = "Expr"
     /\ arg.x.e.expr = "Value"
     /\ arg.x.e.v.val = "SingleQuotedString"
    THEN OkPath(trim_end(trim_start(arg.x.e.v.s)))
    ELSE ErrPath(ComputeError(
           "Only a single quoted string is accepted as the first parameter. Instead received: "
             \o Display(arg)))

\* get_file_path_from_arg as it would be with double-quoted strings accepted
get_file_path_from_arg_any_quote(arg) ==
  IF /\ arg.arg = "Unnamed"
     /\ arg.x.fae = "Expr"
     /\ arg.x.e.expr = "Value"
     /\ arg.x.e.v.val \in {"SingleQuotedString", "DoubleQuotedString"}
    THEN OkPath(arg.x.e.v.s)
    ELSE ErrPath(ComputeError(
           "Only a single quoted string is accepted as the first parameter. Instead received: "
             \o Display(arg)))

\* get_file_path_from_arg as it would be with the path kept in one buffer
\* shared by all callers: the path of a caller that is between extraction
\* and scan is returned
get_file_path_from_arg_shared(arg) ==
  IF /\ arg.arg = "Unnamed"
     /\ arg.x.fae = "Expr"
     /\ arg.x.e.expr = "Value"
     /\ arg.x.e.v.val = "SingleQuotedString"
    THEN IF \E u \in Threads : pc[u] \in {"read_csv_scan", "read_parquet_scan", "read_ipc_scan"}
           THEN OkPath(path[CHOOSE u \in Threads :
                              pc[u] \in {"read_csv_scan", "read_parquet_scan", "read_ipc_scan"}][1])
           ELSE OkPath(arg.x.e.v.s)
    ELSE ErrPath(ComputeError(
           "Only a single quoted string is accepted as the first parameter. Instead received: "
             \o Display(arg)))

get_file_path_from_arg(arg) ==
  IF /\ arg.arg = "Unnamed"
     /\ arg.x.fae = "Expr"
     /\ arg.x.e.expr = "Value"
     /\ arg.x.e.v.val = "SingleQuotedString"
    THEN OkPath(arg.x.e.v.s)
    ELSE ErrPath(ComputeError(
           "Only a single quoted string is accepted as the first parameter. Instead received: "
             \o Display(arg)))

\* the backend's scan constructor: what it returns when it answers ans
Construct(ctor, p, opts, ans) ==
  [ctor |-> ctor, path |-> p, options |-> opts, answer |-> ans]

\* Finish as it would be with the backend's error wrapped
Finish_wrapped(p, call) ==
  IF call.answer # NoError
    THEN Err(ComputeError("could not scan '" \o p \o "': " \o call.answer.msg))
    ELSE Ok(p, LazyFrame(call.ctor, call.path, call.options))

Set(f, t, v) == [f EXCEPT ![t] = v]

\* `let lf = <constructor>?; Ok((path, lf))`
Finish(p, call) ==
  IF call.answer # NoError
    THEN Err(call.answer)
    ELSE Ok(p, LazyFrame(call.ctor, call.path, call.options))

\* Extract as it would be with every argument validated
Extract_every_arg(t, routine) ==
  /\ pc[t] = routine
  /\ IF Len(args[t]) = 0
       THEN /\ result' = Set(result, t, Panic("index out of bounds: the len is 0 but the index is 0"))
            /\ pc' = Set(pc, t, "done")
            /\ path' = path
       ELSE LET bad == {i \in 1..Len(args[t]) : get_file_path_from_arg(args[t][i]).tag = "Err"} IN
            IF bad # {}
              THEN /\ result' = Set(result, t,
                                    Err(get_file_path_from_arg(
                                          args[t][CHOOSE i \in bad : \A j \in bad : i <= j]).err))
                   /\ pc' = Set(pc, t, "done")
                   /\ path' = path
              ELSE /\ path' = Set(path, t, Some(get_file_path_from_arg(args[t][1]).s))
                   /\ pc' = Set(pc, t, routine \o "_scan")
                   /\ result' = result
  /\ UNCHANGED <<features, name, parsed, args, calls>>

\* `let path = self.get_file_path_from_arg(&args[0])?;`
Extract(t, routine) ==
  /\ pc[t] = routine
  /\ IF Len(args[t]) = 0
       THEN /\ result' = Set(result, t, Panic("index out of bounds: the len is 0 but the index is 0"))
            /\ pc' = Set(pc, t, "done")
            /\ path' = path
       ELSE LET r == get_file_path_from_arg(args[t][1]) IN
            IF r.tag = "Err"
              THEN /\ result' = Set(result, t, Err(r.err))
                   /\ pc' = Set(pc, t, "done")
                   /\ path' = path
              ELSE /\ path' = Set(path, t, Some(r.s))
                   /\ pc' = Set(pc, t, routine \o "_scan")
                   /\ result' = result
  /\ UNCHANGED <<features, name, parsed, args, calls>>

\* `let lf = <constructor>(&path, defaults)?; Ok((path, lf))`
Scan(t, routine, ctor, ans) ==
  /\ pc[t] = routine \o "_scan"
  /\ LET call == Construct(ctor, path[t][1], "default", ans) IN
       /\ calls' = Set(calls, t, Append(calls[t], call))
       /\ result' = Set(result, t, Finish(path[t][1], call))
  /\ pc' = Set(pc, t, "done")
  /\ UNCHANGED <<features, name, parsed, args, path>>

read_csv(t) ==
  \/ Extract(t, "read_csv")
  \/ \E ans \in BackendAnswers : Scan(t, "read_csv", "LazyCsvReader::new.finish", ans)

\* read_parquet as it would be with the IPC scan called by mistake
read_parquet_scan_ipc(t) ==
  \/ Extract(t, "read_parquet")
  \/ \E ans \in BackendAnswers : Scan(t, "read_parquet", "LazyFrame::scan_ipc", ans)

read_parquet(t) ==
  \/ Extract(t, "read_parquet")
  \/ \E ans \in BackendAnswers : Scan(t, "read_parquet", "LazyFrame::scan_parquet", ans)

read_ipc(t) ==
  \/ Extract(t, "read_ipc")
  \/ \E ans \in BackendAnswers : Scan(t, "read_ipc", "LazyFrame::scan_ipc", ans)

\* a caller parses a function name
Parse(t, s) ==
  /\ pc[t] = "idle"
  /\ name' = Set(name, t, s)
  /\ parsed' = Set(parsed, t, from_str(s))
  /\ pc' = Set(pc, t, IF from_str(s).tag = "Ok" THEN "parsed" ELSE "rejected")
  /\ UNCHANGED <<features, args, path, calls, result>>

\* a caller calls execute on the kind it holds
Execute(t, a) ==
  /\ pc[t] = "parsed"
  /\ args' = Set(args, t, a)
  /\ LET routine == execute(parsed[t].kind) IN
       IF routine = "unreachable"
         THEN /\ pc' = Set(pc, t, "done")
              /\ result' = Set(result, t, Panic("internal error: entered unreachable code"))
         ELSE /\ pc' = Set(pc, t, routine)
              /\ result' = result
  /\ UNCHANGED <<features, name, parsed, path, calls>>

\* execute has returned (it did not panic): its locals are gone, the caller
\* still holds the kind
Return(t) ==
  /\ pc[t] = "done"
  /\ result[t].tag # "Panic"
  /\ pc' = Set(pc, t, "parsed")
  /\ args' = Set(args, t, <<>>)
  /\ path' = Set(path, t, None)
  /\ calls' = Set(calls, t, <<>>)
  /\ result' = Set(result, t, NoResult)
  /\ UNCHANGED <<features, name, parsed>>

\* the caller lets go of the kind, or of the parse error
Drop(t) ==
  /\ pc[t] \in {"parsed", "rejected"}
  /\ pc' = Set(pc, t, "idle")
  /\ name' = Set(name, t, "")
  /\ parsed' = Set(parsed, t, NoKind)
  /\ UNCHANGED <<features, args, path, calls, result>>

-----------------------------------------------------------------------------
(* Specifications *)

\* any build configuration; no call in progress
Init ==
  /\ features \in SUBSET Features
  /\ pc = [t \in Threads |-> "idle"]
  /\ name = [t \in Threads |-> ""]
  /\ parsed = [t \in Threads |-> NoKind]
  /\ args = [t \in Threads |-> <<>>]
  /\ path = [t \in Threads |-> None]
  /\ calls = [t \in Threads |-> <<>>]
  /\ result = [t \in Threads |-> NoResult]

Step(t, names, lists) ==
  \/ \E s \in names : Parse(t, s)
  \/ \E a \in lists : Execute(t, a)
  \/ read_csv(t)
  \/ read_parquet(t)
  \/ read_ipc(t)
  \/ Return(t)
  \/ Drop(t)

\* one caller, every shape of name and argument list
Next == Step(Main, Names, SeqArgLists)

Spec == Init /\ [][Next]_vars

\* two callers resolving at the same time
NextPair == \E t \in Pair : Step(t, Names, PairArgLists)

SpecPair == Init /\ [][NextPair]_vars

\* three callers resolving at the same time
NextThreads == \E t \in Threads : Step(t, ThreadNames, ThreadArgLists)

SpecThreads == Init /\ [][NextThreads]_vars

-----------------------------------------------------------------------------
(* Vocabulary of the properties *)

Kinds == {"ReadCsv", "ReadParquet", "ReadIpc"}

\* the registered name, the capability flag, the routine and the scan
\* constructor of each kind
RegisteredName == [ReadCsv |-> "read_csv", ReadParquet |-> "read_parquet", ReadIpc |-> "read_ipc"]

Flag == [ReadCsv |-> "csv", ReadParquet |-> "parquet", ReadIpc |-> "ipc"]

RoutineOf == [ReadCsv |-> "read_csv", ReadParquet |-> "read_parquet", ReadIpc |-> "read_ipc"]

ConstructorOf ==
  [ReadCsv |-> "LazyCsvReader::new.finish",
   ReadParquet |-> "LazyFrame::scan_parquet",
   ReadIpc |-> "LazyFrame::scan_ipc"]

\* s occurs in m
Contains(m, s) ==
  \E i \in 1..(Len(m) - Len(s) + 1) : SubSeq(m, i, i + Len(s) - 1) = s

\* the texts around the occurrences of s in m
Shapes(m, s) ==
  {<<SubSeq(m, 1, i - 1), SubSeq(m, i + Len(s), Len(m))>> :
     i \in {j \in 1..(Len(m) - Len(s) + 1) : SubSeq(m, j, j + Len(s) - 1) = s}}

\* the error kinds of the resolver, recognised by their fixed text
IsUnsupportedFunction(e) ==
  e.variant = "ComputeError" /\ Contains(e.msg, "is not a supported table function")

IsInvalidArgument(e) ==
  e.variant = "ComputeError" /\ Contains(e.msg, "Only a single quoted string is accepted")

\* an unnamed single-quoted string literal
IsLiteral(a) ==
  a.arg = "Unnamed" /\ a.x.fae = "Expr" /\ a.x.e.expr = "Value"
    /\ a.x.e.v.val = "SingleQuotedString"

HasParsed(t) == parsed[t].tag # "None"

InExecute(t) == pc[t] \notin {"idle", "parsed", "rejected"}

Returned(t) == pc[t] = "done"

\* the backend gave both calls the same answers, as far as both asked
SameBackend(t1, t2) ==
  \A i \in (1..Len(calls[t1])) \cap (1..Len(calls[t2])) :
    calls[t1][i].answer = calls[t2][i].answer

-----------------------------------------------------------------------------
(* C1: parse(name) succeeds exactly when name equals, case-sensitively,   *)
(* the registered name of a kind whose capability flag is enabled, and    *)
(* then returns that kind; every other name fails with UnsupportedFunction *)
C1_ParseExactMatch ==
  \A t \in Threads : HasParsed(t) =>
    LET hits == {k \in Kinds : RegisteredName[k] = name[t] /\ Flag[k] \in features} IN
      /\ (parsed[t].tag = "Ok") <=> (hits # {})
      /\ parsed[t].tag = "Ok" => parsed[t].kind \in hits
      /\ parsed[t].tag # "Ok" => parsed[t].tag = "Err" /\ IsUnsupportedFunction(parsed[t].err)

\* the name of a disabled kind is rejected while another kind is enabled
C1_Witness ==
  /\ pc[Main] = "rejected"
  /\ name[Main] = "read_parquet"
  /\ features = {"csv", "ipc"}

(* C2: a failed parse returns an error carrying the offending name         *)
(* verbatim; "unknown_fn" always fails; the error for the name of a        *)
(* disabled kind has the same variant and the same text around the name    *)
(* as the error for a name that was never registered                       *)
C2_ErrorCarriesName ==
  /\ \A t \in Threads : HasParsed(t) /\ name[t] = "unknown_fn" => parsed[t].tag = "Err"
  /\ \A t1, t2 \in Threads :
       parsed[t1].tag = "Err" /\ parsed[t2].tag = "Err" =>
         /\ parsed[t1].err.variant = parsed[t2].err.variant
         /\ Shapes(parsed[t1].err.msg, name[t1]) \cap Shapes(parsed[t2].err.msg, name[t2]) # {}

\* one caller was refused a disabled kind, the other an unknown name
C2_Witness ==
  /\ "csv" \notin features
  /\ pc["main"] = "rejected" /\ name["main"] = "read_csv"
  /\ pc["worker1"] = "rejected" /\ name["worker1"] = "unknown_fn"

(* C3: when the first argument is an unnamed single-quoted literal s and   *)
(* the scan constructor succeeds, execute succeeds, the returned name is   *)
(* exactly s and the relation is the one the constructor built for path s  *)
C3_NameIsPathVerbatim ==
  \A t \in Threads :
    (/\ Returned(t)
     /\ Len(args[t]) >= 1
     /\ IsLiteral(args[t][1])
     /\ calls[t] # <<>>
     /\ calls[t][1].answer = NoError) =>
      LET s == args[t][1].x.e.v.s IN
        /\ result[t].tag = "Ok"
        /\ result[t].name = s
        /\ calls[t][1].path = s
        /\ result[t].lf = LazyFrame(calls[t][1].ctor, s, calls[t][1].options)

\* a path with surrounding blanks and capitals came back as a name
C3_Witness ==
  /\ Returned(Main)
  /\ result[Main].tag = "Ok"
  /\ args[Main] = <<Literal(" A b.PQ ")>>
  /\ result[Main].name = " A b.PQ "

(* C4: a first argument that is not an unnamed single-quoted literal makes *)
(* execute return an InvalidArgument error whose message contains the      *)
(* rendering of that argument; no panic, no scan of a substituted path     *)
C4_InvalidArgument ==
  \A t \in Threads :
    (InExecute(t) /\ Len(args[t]) >= 1 /\ ~IsLiteral(args[t][1])) =>
      /\ calls[t] = <<>>
      /\ result[t].tag \in {"None", "Err"}
      /\ Returned(t) =>
           /\ result[t].tag = "Err"
           /\ IsInvalidArgument(result[t].err)
           /\ Contains(result[t].err.msg, Display(args[t][1]))

\* a named argument was rejected
C4_Witness ==
  /\ Returned(Main)
  /\ Len(args[Main]) >= 1
  /\ args[Main][1].arg = "Named"
  /\ result[Main].tag = "Err"

(* C5: with an empty argument list execute fails with an argument-count    *)
(* error that is returned to the caller as a typed error value, and no     *)
(* scan constructor is invoked                                             *)
C5_EmptyArgsTypedError ==
  \A t \in Threads :
    (Returned(t) /\ args[t] = <<>>) => (result[t].tag = "Err" /\ calls[t] = <<>>)

(* C6: when the scan constructor returns an error, execute returns exactly *)
(* that error and no (name, relation) pair; the constructor is not tried   *)
(* again                                                                   *)
C6_BackendErrorUnchanged ==
  \A t \in Threads :
    (Returned(t) /\ calls[t] # <<>> /\ calls[t][1].answer # NoError) =>
      /\ result[t] = Err(calls[t][1].answer)
      /\ Len(calls[t]) = 1

\* the backend failed with an error of the variant the resolver itself uses
C6_Witness ==
  /\ Returned(Main)
  /\ calls[Main] # <<>>
  /\ calls[Main][1].answer = [variant |-> "ComputeError", msg |-> "invalid header"]

C8_DispatchCoversParse ==
  \A t \in Threads :
    /\ result[t].panic # "internal error: entered unreachable code"
    /\ (InExecute(t) /\ ~Returned(t)) =>
         pc[t] \in {RoutineOf[parsed[t].kind], RoutineOf[parsed[t].kind] \o "_scan"}

\* the only enabled kind is being executed
C8_Witness ==
  /\ features = {"ipc"}
  /\ pc[Main] = "read_ipc"

(* C9: within one execute call a scan constructor is invoked at most once, *)
(* only after the path was extracted from the first argument, with that    *)
(* path and default options, and it is the constructor of the call's kind; *)
(* when extraction fails none is invoked                                   *)
C9_ExtractThenScan ==
  \A t \in Threads :
    /\ Len(calls[t]) <= 1
    /\ ~InExecute(t) => calls[t] = <<>>
    /\ calls[t] # <<>> =>
         /\ Len(args[t]) >= 1 /\ IsLiteral(args[t][1])
         /\ path[t] = Some(args[t][1].x.e.v.s)
         /\ calls[t][1].path = args[t][1].x.e.v.s
         /\ calls[t][1].options = "default"
         /\ calls[t][1].ctor = ConstructorOf[parsed[t].kind]
    /\ (Returned(t) /\ path[t] = None) => calls[t] = <<>>

\* the Parquet scan was built for the extracted path
C9_Witness ==
  /\ Returned(Main)
  /\ parsed[Main].kind = "ReadParquet"
  /\ Len(calls[Main]) = 1
  /\ calls[Main][1].ctor = "LazyFrame::scan_parquet"

(* C10: execute looks at the first argument only: a call with a list of    *)
(* one or more arguments returns what the call with that list's first      *)
(* argument alone returns (same kind, same backend answers)                *)
C10_OnlyFirstArgument ==
  \A t1, t2 \in Threads :
    (/\ Returned(t1) /\ Returned(t2)
     /\ parsed[t1].kind = parsed[t2].kind
     /\ Len(args[t1]) >= 1
     /\ args[t2] = <<args[t1][1]>>
     /\ SameBackend(t1, t2)) => result[t1] = result[t2]

\* a call with a named second argument returned beside the call with the
\* first argument alone
C10_Witness ==
  /\ Returned("main") /\ Returned("worker1")
  /\ parsed["main"].kind = parsed["worker1"].kind
  /\ Len(args["main"]) = MaxArgs
  /\ args["main"][2].arg = "Named"
  /\ args["worker1"] = <<args["main"][1]>>
  /\ result["main"].tag = "Ok"

====
